---- MODULE Spec2Model ----
(***************************************************************************)
(* Model of the consensus worker of consensus/src/consensus_worker.rs:     *)
(* the select loop of run_loop and its handlers slot_tick,                 *)
(* process_consensus_command, process_protocol_event, block_db_changed     *)
(* and get_best_operations.                                                *)
(*                                                                         *)
(* The worker's collaborators (BlockGraph, Pool, Protocol, Storage,        *)
(* RandomSelector, Slot) live in other crates; they are modelled from      *)
(* their documented interface and every call the worker makes to them is   *)
(* recorded in `calls`.                                                    *)
(***************************************************************************)
EXTENDS Integers, Sequences, FiniteSets, TLC

\* ------------------------------------------------------------------ bounds

\* Largest representable period (stands for u64::MAX): get_next_slot
\* overflows beyond it.
MaxPeriod == 1

\* cfg.thread_count
thread_count == 2

\* cfg.nodes.len()
NumNodes == 2

\* Number of distinct block ids in play.
NumBlocks == 2

\* Largest final period the DAG reports.
MaxFinalPeriod == 1

\* Number of operations the pool holds.
NumOps == 3

\* cfg.max_operations_per_block
max_operations_per_block == 2

\* ------------------------------------------------------------------ values

None == << >>
Some(x) == << x >>

Nodes == 0 .. (NumNodes - 1)
BlockIds == 1 .. NumBlocks
OpIds == 1 .. NumOps

\* A Slot is (period: u64, thread: u8).  The thread of a slot a requester
\* sends is any u8: one value past the configured threads stands for the
\* out-of-range ones.
Slot(p, t) == [period |-> p, thread |-> t]
Slots == { Slot(p, t) : p \in 0 .. MaxPeriod, t \in 0 .. (thread_count - 1) }
AnySlots == { Slot(p, t) : p \in 0 .. MaxPeriod, t \in 0 .. thread_count }

\* derive(Ord) on Slot: period first, then thread.
slot_lt(a, b) ==
    \/ a.period < b.period
    \/ a.period = b.period /\ a.thread < b.thread

slot_ge(a, b) == ~ slot_lt(a, b)

\* Slot::get_next_slot succeeds unless the period would wrap.
get_next_slot_ok(s) ==
    \/ s.thread + 1 < thread_count
    \/ s.period < MaxPeriod

\* Slot::get_next_slot: (p, t+1) if t+1 < T else (p+1, 0).
get_next_slot(s) ==
    IF s.thread + 1 < thread_count
    THEN Slot(s.period, s.thread + 1)
    ELSE Slot(s.period + 1, 0)

\* RandomSelector::draw: a deterministic function of the slot alone
\* (constant seed, uniform weights over cfg.nodes).
draw(s) == (s.period + s.thread) % NumNodes

\* derive_public_key(&cfg.genesis_key)
genesis_public_key == 0

\* cfg.nodes[i].0
node_public_key(i) == i + 1

\* ------------------------------------------------------------------ state

VARIABLES
    cfg,                        \* disable_block_creation, current_node_index
    opt_storage_command_sender, \* TRUE when a StorageAccess is configured
    previous_slot,              \* Option<Slot>
    next_slot,                  \* Slot
    wishlist,                   \* HashSet<BlockId>
    latest_final_periods,       \* Vec<u64>
    block_db,                   \* the BlockGraph the worker owns
    controller_command_rx,      \* "open" or "closed"
    pc,                         \* position of the worker task
    result,                     \* what run_loop returned, "" while it runs
    event,                      \* the event the current/last handler took
    calls,                      \* collaborator calls of that handler, in order
    reply,                      \* sends on that handler's reply channel
    cur_slot,                   \* slot_tick's local: Some(slot of the latest tick)
    ops,                        \* get_best_operations' locals
    exclude,
    ledger

vars == << cfg, opt_storage_command_sender, previous_slot, next_slot, wishlist,
           latest_final_periods, block_db, controller_command_rx, pc,
           result, event, calls, reply, cur_slot, ops, exclude,
           ledger >>

worker_state == << previous_slot, next_slot, wishlist, latest_final_periods,
                   block_db >>

creation_locals == << cur_slot, ops, exclude, ledger >>

\* ------------------------------------------------------------------ helpers

RECURSIVE SeqOfSet(_)
\* The elements of a finite set of integers, ascending.
SeqOfSet(S) ==
    IF S = {} THEN << >>
    ELSE LET m == CHOOSE x \in S : \A y \in S : x <= y
         IN  << m >> \o SeqOfSet(S \ {m})

Range(q) == { q[i] : i \in 1 .. Len(q) }

\* One call to a collaborator.
Call(op, slot, ids, ids2, vec) ==
    [op |-> op, slot |-> slot, ids |-> ids, ids2 |-> ids2, vec |-> vec, n |-> 0]

CallsOf(log, op) == SelectSeq(log, LAMBDA c : c.op = op)

\* The event a handler processes.
Event(kind, name, ids, from, to, alive) ==
    [kind |-> kind, name |-> name, ids |-> ids, from |-> from, to |-> to,
     alive |-> alive]

NoEvent == Event("", "", << >>, None, None, FALSE)

\* A value received on a oneshot reply channel.
Reply(tag, blocks, draws) ==
    [tag |-> tag, blocks |-> blocks, draws |-> draws]

\* ------------------------------------------------------------------ BlockGraph

FinalVectors == [ 1 .. thread_count -> 0 .. MaxFinalPeriod ]

\* BlockGraph::get_latest_final_blocks_periods mapped to the periods.
final_periods(db) == db.final

\* A freshly loaded graph: nothing pending for the fan-out, and no active
\* block on the wishlist.
InitialGraphs ==
    { g \in [ active : SUBSET BlockIds,
              wishlist : SUBSET BlockIds,
              final : { [ t \in 1 .. thread_count |-> 0 ] },
              to_propagate : { {} },
              attack_attempts : { {} },
              discarded_final : { {} } ] : g.active \cap g.wishlist = {} }

\* b becomes an active block to propagate and is wanted no more.
graph_integrate(db, b) ==
    [ db EXCEPT !.active = db.active \cup {b},
                !.to_propagate = db.to_propagate \cup {b},
                !.wishlist = db.wishlist \ {b} ]

\* b is recorded as an attack attempt.
graph_attack(db, b) ==
    [ db EXCEPT !.attack_attempts = db.attack_attempts \cup {b} ]

\* The graphs in which one more missing block is wanted.
graph_want(db) ==
    { [ db EXCEPT !.wishlist = db.wishlist \cup {x} ] :
      x \in BlockIds \ db.active }

\* The threads whose final period may advance next: the least advanced ones.
next_final_threads(db) ==
    { t \in 1 .. thread_count :
        /\ db.final[t] < MaxFinalPeriod
        /\ \A u \in 1 .. thread_count : db.final[t] <= db.final[u]
        /\ \A u \in 1 .. (t - 1) : db.final[u] > db.final[t] }

\* The graphs in which a final period advanced, discarding the active blocks
\* in d.
graph_finalize(db, d) ==
    { [ db EXCEPT !.final = [db.final EXCEPT ![t] = db.final[t] + 1],
                  !.discarded_final = d ] :
      t \in next_final_threads(db) }

\* What a state-changing call about block b (incoming_block, incoming_header,
\* slot_tick) may leave the graph in: unchanged, b recorded as an attack,
\* a missing block wanted, a final period advanced, b integrated (when the
\* call can do that), or all of these at once.
graph_changes(db, b, integrate) ==
    LET integrated == IF integrate THEN graph_integrate(db, b) ELSE db
    IN  {db, integrated, graph_attack(db, b)}
        \cup graph_want(db)
        \cup graph_finalize(db, {})
        \cup graph_finalize(db, db.active)
        \cup UNION { graph_finalize(h, h.active \ {b}) :
                     h \in graph_want(graph_attack(integrated, b)) }

\* BlockGraph::prune: drops the discarded final blocks and returns them.
prune(db) ==
    [ db EXCEPT !.active = db.active \ db.discarded_final,
                !.discarded_final = {} ]

\* BlockGraph::create_block: the id of the block created for a slot.
create_block(slot) == 1 + ((slot.period * thread_count + slot.thread) % NumBlocks)

\* ------------------------------------------------------------------ fan-out

\* The awaited calls of block_db_changed that may return an error.
FanoutFailures ==
    { "none", "send_wishlist_delta", "update_latest_final_periods" }

FanoutResult(ok, db, wl, lfp, log) ==
    [ok |-> ok, db |-> db, wishlist |-> wl, latest_final_periods |-> lfp,
     calls |-> log]

\* The last step pushing the final periods whether they changed or not.
fanout_final_periods_always_pushing(db, wl, lfp, log, fail) ==
    LET new_periods == final_periods(db)
        push == Call("pool.update_latest_final_periods", None, {}, {}, new_periods)
    IN  FanoutResult(fail # "update_latest_final_periods", db, wl,
                     new_periods, Append(log, push))

\* Last step of block_db_changed: push the final periods to the pool if changed.
fanout_final_periods(db, wl, lfp, log, fail) ==
    LET new_periods == final_periods(db)
        push == Call("pool.update_latest_final_periods", None, {}, {}, new_periods)
    IN  IF lfp # new_periods
        THEN FanoutResult(fail # "update_latest_final_periods", db, wl,
                          new_periods, Append(log, push))
        ELSE FanoutResult(TRUE, db, wl, lfp, log)

\* The wishlist step sending the whole new wishlist instead of the delta.
fanout_wishlist_sending_whole_list(db, wl, lfp, log, fail) ==
    LET new_wishlist == db.wishlist
        send == Call("protocol.send_wishlist_delta", None, new_wishlist,
                     wl \ new_wishlist, << >>)
    IN  IF new_wishlist # wl
        THEN IF fail = "send_wishlist_delta"
             THEN FanoutResult(FALSE, db, wl, lfp, Append(log, send))
             ELSE fanout_final_periods(db, new_wishlist, lfp,
                                       Append(log, send), fail)
        ELSE fanout_final_periods(db, wl, lfp, log, fail)

\* Wishlist step of block_db_changed: send the delta if it is not empty.
fanout_wishlist(db, wl, lfp, log, fail) ==
    LET new_wishlist == db.wishlist
        new_blocks == new_wishlist \ wl
        remove_blocks == wl \ new_wishlist
        send == Call("protocol.send_wishlist_delta", None, new_blocks,
                     remove_blocks, << >>)
    IN  IF new_blocks # {} \/ remove_blocks # {}
        THEN IF fail = "send_wishlist_delta"
             THEN FanoutResult(FALSE, db, wl, lfp, Append(log, send))
             ELSE fanout_final_periods(db, new_wishlist, lfp,
                                       Append(log, send), fail)
        ELSE fanout_final_periods(db, wl, lfp, log, fail)

\* Attack step of block_db_changed: notify every attack attempt.
fanout_attacks(db, wl, lfp, log, fail) ==
    LET attacks == SeqOfSet(db.attack_attempts)
        db1 == [db EXCEPT !.attack_attempts = {}]
        notify(b) == Call("protocol.notify_block_attack", None, {b}, {}, << >>)
    IN  fanout_wishlist(db1, wl, lfp,
                 log \o [i \in 1 .. Len(attacks) |-> notify(attacks[i])], fail)

\* The propagation step running after the attack notifications.
fanout_propagate_after_attacks(db, wl, lfp, log, fail) ==
    LET blocks == SeqOfSet(db.to_propagate)
        attacks == SeqOfSet(db.attack_attempts)
        db1 == [db EXCEPT !.to_propagate = {}, !.attack_attempts = {}]
        integrated(b) == Call("protocol.integrated_block", None, {b}, {}, << >>)
        notify(b) == Call("protocol.notify_block_attack", None, {b}, {}, << >>)
    IN  fanout_wishlist(db1, wl, lfp,
                 (log \o [i \in 1 .. Len(attacks) |-> notify(attacks[i])])
                      \o [i \in 1 .. Len(blocks) |-> integrated(blocks[i])], fail)

\* Propagation step of block_db_changed: announce every block to propagate.
fanout_propagate(db, wl, lfp, log, fail) ==
    LET blocks == SeqOfSet(db.to_propagate)
        db1 == [db EXCEPT !.to_propagate = {}]
        integrated(b) == Call("protocol.integrated_block", None, {b}, {}, << >>)
    IN  fanout_attacks(db1, wl, lfp,
                 log \o [i \in 1 .. Len(blocks) |-> integrated(blocks[i])], fail)

\* block_db_changed: prune and archive, propagate, notify attacks, wishlist
\* delta, final periods.  `fail` names the awaited call that errs, if any.
block_db_changed(db, wl, lfp, log, fail) ==
    LET discarded_final_blocks == db.discarded_final
        db1 == prune(db)
        pruned == Append(log, Call("block_db.prune", None, {}, {}, << >>))
        batch == Call("storage.add_block_batch", None, discarded_final_blocks,
                      {}, << >>)
    IN  IF opt_storage_command_sender
        THEN fanout_propagate(db1, wl, lfp, Append(pruned, batch), fail)
        ELSE fanout_propagate(db1, wl, lfp, pruned, fail)

\* ------------------------------------------------------------------ new

Configs ==
    [ disable_block_creation : BOOLEAN, current_node_index : Nodes ]

\* Position of a slot in slot order.
slot_index(s) == s.period * thread_count + s.thread

\* Latest slot the clock may show when the worker is constructed.
MaxStartIndex == 0

\* get_current_latest_block_slot(..): a slot, or None before genesis.
LatestSlots ==
    {None} \cup { Some(s) : s \in { x \in Slots : slot_index(x) <= MaxStartIndex
                                                  /\ get_next_slot_ok(x) } }

\* ConsensusWorker::new: previous_slot is the latest slot at construction
\* time (None before genesis), next_slot its successor or (0,0); new fails
\* when that successor overflows.
Init ==
    /\ cfg \in Configs
    /\ opt_storage_command_sender \in BOOLEAN
    /\ previous_slot \in LatestSlots
    /\ next_slot = IF previous_slot = None THEN Slot(0, 0)
                   ELSE get_next_slot(previous_slot[1])
    /\ block_db \in InitialGraphs
    /\ latest_final_periods = final_periods(block_db)
    /\ wishlist = {}
    /\ controller_command_rx = "open"
    /\ pc = "run_loop"
    /\ result = ""
    /\ event = NoEvent
    /\ calls = << >>
    /\ reply = << >>
    /\ cur_slot = None
    /\ ops = << >>
    /\ exclude = << >>
    /\ ledger = << >>

\* ------------------------------------------------------------------ run_loop

\* run_loop returns: no handler runs afterwards.
Return(value) ==
    /\ pc' = "returned"
    /\ result' = value

\* The head of run_loop: signal the initial state to the pool, arm the timer.
run_loop_start ==
    /\ pc = "run_loop"
    /\ event' = Event("start", "", << >>, None, None, FALSE)
    /\ reply' = << >>
    /\ \E fail \in {"none", "update_current_slot", "update_latest_final_periods"} :
         LET first == IF previous_slot # None
                      THEN << Call("pool.update_current_slot", previous_slot, {}, {}, << >>) >>
                      ELSE << >>
             second == Call("pool.update_latest_final_periods", None, {}, {},
                            latest_final_periods)
         IN  IF fail = "update_current_slot" /\ previous_slot # None
             THEN calls' = first /\ Return("Err(Collaborator)")
             ELSE IF fail = "update_latest_final_periods"
             THEN calls' = Append(first, second) /\ Return("Err(Collaborator)")
             ELSE /\ calls' = Append(first, second) \o
                              << Call("timer.set", Some(next_slot), {}, {}, << >>) >>
                  /\ pc' = "handled"
                  /\ result' = ""
    /\ UNCHANGED << cfg, opt_storage_command_sender, worker_state,
                    controller_command_rx, creation_locals >>

\* `loop {`: the next iteration polls the four streams again; the locals of
\* get_best_operations are gone with the handler that returned.
loop ==
    /\ pc = "handled"
    /\ pc' = "select"
    /\ event' = NoEvent
    /\ calls' = << >>
    /\ reply' = << >>
    /\ ops' = << >>
    /\ exclude' = << >>
    /\ ledger' = << >>
    /\ UNCHANGED << cfg, opt_storage_command_sender, worker_state,
                    controller_command_rx, result, cur_slot >>

\* The manager branch written `None => {}`: the loop goes on.
manager_closed_ignored ==
    /\ pc = "select"
    /\ event' = Event("manager", "None", << >>, None, None, FALSE)
    /\ calls' = << >>
    /\ reply' = << >>
    /\ pc' = "handled"
    /\ result' = ""
    /\ UNCHANGED << cfg, opt_storage_command_sender, worker_state,
                    controller_command_rx, creation_locals >>

\* The manager branch polled also while slot_tick awaits the pool.
manager_closed_while_awaiting_pool ==
    /\ pc \in {"select", "get_best_operations"}
    /\ event' = Event("manager", "None", << >>, None, None, FALSE)
    /\ calls' = << >>
    /\ reply' = << >>
    /\ Return("Ok(protocol_event_receiver)")
    /\ UNCHANGED << cfg, opt_storage_command_sender, worker_state,
                    controller_command_rx, creation_locals >>

\* select!, manager branch: recv() yields None once every manager handle is
\* dropped (ConsensusManagementCommand has no variant, so Some never comes).
manager_closed ==
    /\ pc = "select"
    /\ event' = Event("manager", "None", << >>, None, None, FALSE)
    /\ calls' = << >>
    /\ reply' = << >>
    /\ Return("Ok(protocol_event_receiver)")
    /\ UNCHANGED << cfg, opt_storage_command_sender, worker_state,
                    controller_command_rx, creation_locals >>

\* The command branch written `cmd = recv()` with `None => break`.
close_command_channel_breaks ==
    /\ pc = "select"
    /\ controller_command_rx = "open"
    /\ controller_command_rx' = "closed"
    /\ Return("Ok(protocol_event_receiver)")
    /\ UNCHANGED << cfg, opt_storage_command_sender, worker_state, event,
                    calls, reply, creation_locals >>

\* Every ConsensusCommandSender is dropped: recv() yields None from now on,
\* which disables the command branch of select!.
close_command_channel ==
    /\ pc = "select"
    /\ controller_command_rx = "open"
    /\ controller_command_rx' = "closed"
    /\ UNCHANGED << cfg, opt_storage_command_sender, worker_state, pc,
                    result, event, calls, reply, creation_locals >>

\* ------------------------------------------------------------------ protocol events

\* Longest GetBlocks list.
MaxListLen == 2

BlockLists == UNION { [ 1 .. n -> BlockIds ] : n \in 0 .. MaxListLen }

\* The handler ends: on to the next iteration of the loop, or run_loop
\* returns the error through `?`.
Finish(ok, err) ==
    IF ok THEN pc' = "handled" /\ result' = ""
    ELSE Return(err)

\* A state-changing BlockGraph call left the graph as g: run block_db_changed
\* and end the handler; `tail` is what a successful handler still does.
changed(g, log, fail, tail) ==
    LET r == block_db_changed(g, wishlist, latest_final_periods, log, fail)
    IN  /\ block_db' = r.db
        /\ wishlist' = r.wishlist
        /\ latest_final_periods' = r.latest_final_periods
        /\ calls' = IF r.ok THEN r.calls \o tail ELSE r.calls
        /\ Finish(r.ok, "Err(Collaborator)")

RECURSIVE get_blocks_loop_reading_storage_first(_, _, _, _, _, _)
\* The loop of the GetBlocks arm asking Storage before the graph.
get_blocks_loop_reading_storage_first(list, i, found, missing, log, stored) ==
    IF i > Len(list)
    THEN [found |-> found, missing |-> missing, calls |-> log]
    ELSE LET block_hash == list[i]
             read == Call("storage.get_block", None, {block_hash},
                          {block_hash} \cap stored, << >>)
             log1 == IF opt_storage_command_sender THEN Append(log, read) ELSE log
         IN  IF (opt_storage_command_sender /\ block_hash \in stored)
                \/ block_hash \in block_db.active
             THEN get_blocks_loop_reading_storage_first(list, i + 1,
                      found \cup {block_hash}, missing \ {block_hash}, log1, stored)
             ELSE get_blocks_loop_reading_storage_first(list, i + 1,
                      found \ {block_hash}, missing \cup {block_hash}, log1, stored)

RECURSIVE get_blocks_loop(_, _, _, _, _, _)
\* The loop of the GetBlocks arm over list[i..]: `found` and `missing` are
\* the ids mapped to Some and to None so far, `stored` the ids Storage holds.
get_blocks_loop(list, i, found, missing, log, stored) ==
    IF i > Len(list)
    THEN [found |-> found, missing |-> missing, calls |-> log]
    ELSE LET block_hash == list[i]
             read == Call("storage.get_block", None, {block_hash},
                          {block_hash} \cap stored, << >>)
         IN  IF block_hash \in block_db.active
             THEN get_blocks_loop(list, i + 1, found \cup {block_hash},
                                  missing \ {block_hash}, log, stored)
             ELSE IF opt_storage_command_sender
             THEN IF block_hash \in stored
                  THEN get_blocks_loop(list, i + 1, found \cup {block_hash},
                                       missing \ {block_hash},
                                       Append(log, read), stored)
                  ELSE get_blocks_loop(list, i + 1, found \ {block_hash},
                                       missing \cup {block_hash},
                                       Append(log, read), stored)
             ELSE get_blocks_loop(list, i + 1, found \ {block_hash},
                                  missing \cup {block_hash}, log, stored)

\* ProtocolEvent::ReceivedBlock
received_block(b) ==
    /\ event' = Event("protocol", "ReceivedBlock", << b >>, None, None, FALSE)
    /\ LET incoming == Call("block_db.incoming_block", previous_slot, {b}, {}, << >>)
       IN  \E fail \in FanoutFailures \cup {"block_db"} :
             IF fail = "block_db"
             THEN /\ calls' = << incoming >>
                  /\ Return("Err(Collaborator)")
                  /\ UNCHANGED << block_db, wishlist, latest_final_periods >>
             ELSE \E g \in graph_changes(block_db, b, TRUE) :
                    changed(g, << incoming >>, fail, << >>)

\* The ReceivedBlockHeader arm passing no current slot to the graph.
received_header_without_current_slot(b) ==
    /\ event' = Event("protocol", "ReceivedBlockHeader", << b >>, None, None, FALSE)
    /\ LET incoming == Call("block_db.incoming_header", None, {b}, {}, << >>)
       IN  \E fail \in FanoutFailures \cup {"block_db"} :
             IF fail = "block_db"
             THEN /\ calls' = << incoming >>
                  /\ Return("Err(Collaborator)")
                  /\ UNCHANGED << block_db, wishlist, latest_final_periods >>
             ELSE \E g \in graph_changes(block_db, b, FALSE) :
                    changed(g, << incoming >>, fail, << >>)

\* ProtocolEvent::ReceivedBlockHeader
received_header(b) ==
    /\ event' = Event("protocol", "ReceivedBlockHeader", << b >>, None, None, FALSE)
    /\ LET incoming == Call("block_db.incoming_header", previous_slot, {b}, {}, << >>)
       IN  \E fail \in FanoutFailures \cup {"block_db"} :
             IF fail = "block_db"
             THEN /\ calls' = << incoming >>
                  /\ Return("Err(Collaborator)")
                  /\ UNCHANGED << block_db, wishlist, latest_final_periods >>
             ELSE \E g \in graph_changes(block_db, b, FALSE) :
                    changed(g, << incoming >>, fail, << >>)

\* ProtocolEvent::GetBlocks
get_blocks(list) ==
    /\ event' = Event("protocol", "GetBlocks", list, None, None, FALSE)
    /\ UNCHANGED << block_db, wishlist, latest_final_periods >>
    /\ \E stored \in SUBSET BlockIds,
          fail \in {"none", "get_block"} :
         LET r == get_blocks_loop(list, 1, {}, {}, << >>, stored)
             send == Call("protocol.send_get_blocks_results", None, r.found,
                          r.missing, << >>)
         IN  IF fail = "get_block" /\ r.calls # << >>
             THEN /\ calls' = << [r.calls[1] EXCEPT !.ids2 = {}] >>
                  /\ Return("Err(Collaborator)")
             ELSE /\ calls' = Append(r.calls, send)
                  /\ Finish(TRUE, "")

\* select!, protocol branch: wait_event returned Ok(event).
process_protocol_event ==
    /\ pc = "select"
    /\ reply' = << >>
    /\ \/ \E b \in BlockIds : received_block(b)
       \/ \E b \in BlockIds : received_header(b)
       \/ \E list \in BlockLists : get_blocks(list)
    /\ UNCHANGED << cfg, opt_storage_command_sender, previous_slot, next_slot,
                    controller_command_rx, creation_locals >>

\* select!, protocol branch: wait_event returned Err.
protocol_event_error ==
    /\ pc = "select"
    /\ event' = Event("protocol", "Err", << >>, None, None, FALSE)
    /\ calls' = << >>
    /\ reply' = << >>
    /\ Return("Err(CommunicationError)")
    /\ UNCHANGED << cfg, opt_storage_command_sender, worker_state,
                    controller_command_rx, creation_locals >>

\* ------------------------------------------------------------------ commands

RECURSIVE selection_draws_without_genesis(_, _, _)
\* The loop of the GetSelectionDraws arm without the period-0 case.
selection_draws_without_genesis(cur, end, res) ==
    IF slot_ge(cur, end)
    THEN Reply("Ok", {}, res)
    ELSE LET entry == [slot |-> cur, key |-> node_public_key(draw(cur))]
         IN  IF get_next_slot_ok(cur)
             THEN selection_draws_without_genesis(get_next_slot(cur), end,
                                                  Append(res, entry))
             ELSE Reply("Err(SlotOverflowError)", {}, << >>)

RECURSIVE selection_draws_partial_on_overflow(_, _, _)
\* The loop of the GetSelectionDraws arm breaking with Ok(res) on overflow.
selection_draws_partial_on_overflow(cur, end, res) ==
    IF slot_ge(cur, end)
    THEN Reply("Ok", {}, res)
    ELSE LET entry == [slot |-> cur,
                       key |-> IF cur.period = 0
                               THEN genesis_public_key
                               ELSE node_public_key(draw(cur))]
         IN  IF get_next_slot_ok(cur)
             THEN selection_draws_partial_on_overflow(get_next_slot(cur), end,
                                                      Append(res, entry))
             ELSE Reply("Ok", {}, Append(res, entry))

RECURSIVE selection_draws(_, _, _)
\* The loop of the GetSelectionDraws arm from cur_slot = cur: Ok(res) once
\* cur >= end, Err(SlotOverflowError) when get_next_slot fails.
selection_draws(cur, end, res) ==
    IF slot_ge(cur, end)
    THEN Reply("Ok", {}, res)
    ELSE LET entry == [slot |-> cur,
                       key |-> IF cur.period = 0
                               THEN genesis_public_key
                               ELSE node_public_key(draw(cur))]
         IN  IF get_next_slot_ok(cur)
             THEN selection_draws(get_next_slot(cur), end, Append(res, entry))
             ELSE Reply("Err(SlotOverflowError)", {}, << >>)

\* response_tx.send(value): the requester receives the value, unless it
\* dropped the receiver; the arm maps that failure to Err(SendChannelError),
\* which run_loop's `?` returns.
send_response(value, alive) ==
    /\ reply' = IF alive THEN << value >> ELSE << >>
    /\ Finish(alive, "Err(SendChannelError)")

\* ConsensusCommand::GetBlockGraphStatus
get_block_graph_status(alive) ==
    /\ event' = Event("command", "GetBlockGraphStatus", << >>, None, None, alive)
    /\ UNCHANGED worker_state
    /\ send_response(Reply("BlockGraphExport", block_db.active, << >>), alive)

\* ConsensusCommand::GetActiveBlock
get_active_block(block_id, alive) ==
    /\ event' = Event("command", "GetActiveBlock", << block_id >>, None, None, alive)
    /\ UNCHANGED worker_state
    /\ send_response(Reply(IF block_id \in block_db.active THEN "Some" ELSE "None",
                           {block_id} \cap block_db.active, << >>), alive)

\* GetSelectionDraws iterating with self.next_slot instead of a local.
get_selection_draws_moving_next_slot(start, end, alive) ==
    /\ event' = Event("command", "GetSelectionDraws", << >>, Some(start),
                      Some(end), alive)
    /\ next_slot' = IF slot_ge(start, end) THEN start ELSE end
    /\ UNCHANGED << previous_slot, wishlist, latest_final_periods, block_db >>
    /\ send_response(selection_draws(start, end, << >>), alive)

\* ConsensusCommand::GetSelectionDraws
get_selection_draws(start, end, alive) ==
    /\ event' = Event("command", "GetSelectionDraws", << >>, Some(start),
                      Some(end), alive)
    /\ UNCHANGED worker_state
    /\ send_response(selection_draws(start, end, << >>), alive)

\* ConsensusCommand::GetBootGraph: BootsrapableGraph::try_from may fail, and
\* then nothing is sent.
get_boot_graph(alive, convert_ok) ==
    /\ event' = Event("command", "GetBootGraph", << >>, None, None, alive)
    /\ UNCHANGED worker_state
    /\ IF convert_ok
       THEN send_response(Reply("BootsrapableGraph", block_db.active, << >>),
                          alive)
       ELSE reply' = << >> /\ Return("Err(Collaborator)")

\* select!, command branch: recv() returned Some(cmd).
process_consensus_command ==
    /\ pc = "select"
    /\ controller_command_rx = "open"
    /\ calls' = << >>
    /\ \E alive \in BOOLEAN :
         \/ get_block_graph_status(alive)
         \/ \E block_id \in BlockIds : get_active_block(block_id, alive)
         \/ \E start \in Slots, end \in AnySlots :
              get_selection_draws(start, end, alive)
         \/ \E convert_ok \in BOOLEAN : get_boot_graph(alive, convert_ok)
    /\ UNCHANGED << cfg, opt_storage_command_sender, controller_command_rx,
                    creation_locals >>

\* ------------------------------------------------------------------ slot tick

\* Balance every address has in the ledger at the best parents.
balance_at_parents == 2

\* Operation::get_involved_addresses: the address an operation spends from;
\* the first three operations spend from the same address.
op_address(op) == 1 + (op \div 4)

\* Operation::get_changes: the amount an operation spends: 1, 1, 2, 2, ...
op_cost(op) == 1 + (op \div 3)

\* BlockGraph::get_ledger_at_parents(best_parents, addresses)
get_ledger_at_parents(addresses) == [ a \in addresses |-> balance_at_parents ]

\* LedgerSubset::merge: the addresses the snapshot lacks are added.
merge(l, other) ==
    [ a \in (DOMAIN l) \cup (DOMAIN other) |->
        IF a \in DOMAIN l THEN l[a] ELSE other[a] ]

\* LedgerSubset::try_apply_changes succeeds when the balance covers the cost.
can_apply(l, op) == op_address(op) \in DOMAIN l /\ l[op_address(op)] >= op_cost(op)

apply_changes(l, op) ==
    [ l EXCEPT ![op_address(op)] = l[op_address(op)] - op_cost(op) ]

\* The snapshot fetched again for the batch's addresses, without the merge.
update_ledger_fetching_again(l, involved_addresses) ==
    get_ledger_at_parents(involved_addresses)

\* "if new addresses are needed, update ledger":
\* ledger.merge(get_ledger_at_parents(best_parents, involved_addresses))
update_ledger(l, involved_addresses) ==
    merge(l, get_ledger_at_parents(involved_addresses))

RECURSIVE try_candidates_forgetting_rejected(_, _, _, _, _)
\* The for loop of get_best_operations not recording the ids it rejects.
try_candidates_forgetting_rejected(candidates, i, l, included, rejected) ==
    IF i > Len(candidates)
    THEN [ledger |-> l, ops |-> included, exclude |-> rejected]
    ELSE LET op == candidates[i]
         IN  IF can_apply(l, op)
             THEN try_candidates_forgetting_rejected(candidates, i + 1,
                      apply_changes(l, op), Append(included, op), rejected)
             ELSE try_candidates_forgetting_rejected(candidates, i + 1, l,
                                                     included, rejected)

RECURSIVE try_candidates_prepending(_, _, _, _, _)
\* The for loop of get_best_operations putting an applicable operation in
\* front of ops.
try_candidates_prepending(candidates, i, l, included, rejected) ==
    IF i > Len(candidates)
    THEN [ledger |-> l, ops |-> included, exclude |-> rejected]
    ELSE LET op == candidates[i]
         IN  IF can_apply(l, op)
             THEN try_candidates_prepending(candidates, i + 1,
                      apply_changes(l, op), << op >> \o included, rejected)
             ELSE try_candidates_prepending(candidates, i + 1, l, included,
                                            Append(rejected, op))

RECURSIVE try_candidates(_, _, _, _, _)
\* The for loop of get_best_operations over candidates[i..]: an applicable
\* operation is pushed to ops, another one's id to exclude.
try_candidates(candidates, i, l, included, rejected) ==
    IF i > Len(candidates)
    THEN [ledger |-> l, ops |-> included, exclude |-> rejected]
    ELSE LET op == candidates[i]
         IN  IF can_apply(l, op)
             THEN try_candidates(candidates, i + 1, apply_changes(l, op),
                                 Append(included, op), rejected)
             ELSE try_candidates(candidates, i + 1, l, included,
                                 Append(rejected, op))

\* The batches a pool may answer a request with: at most asked_nb distinct
\* operations, none of them excluded, in the pool's order.
pool_batches(to_exclude, asked_nb) ==
    { q \in UNION { [ 1 .. n -> OpIds \ to_exclude ] : n \in 0 .. asked_nb } :
        \A i, j \in 1 .. Len(q) : i # j => q[i] # q[j] }

\* The pool request asking for a whole block's worth every time.
get_operation_batch_asking_whole_block(slot, included, rejected) ==
    [ Call("pool.get_operation_batch", Some(slot), Range(rejected) \cup Range(included),
           {}, rejected \o included)
      EXCEPT !.n = max_operations_per_block ]

\* The pool request excluding only the operations already included.
get_operation_batch_excluding_included_only(slot, included, rejected) ==
    [ Call("pool.get_operation_batch", Some(slot), Range(included), {}, included)
      EXCEPT !.n = max_operations_per_block - Len(included) ]

\* pool_command_sender.get_operation_batch(cur_slot, to_exclude, asked_nb, ..)
get_operation_batch(slot, included, rejected) ==
    [ Call("pool.get_operation_batch", Some(slot), Range(rejected) \cup Range(included),
           {}, rejected \o included)
      EXCEPT !.n = max_operations_per_block - Len(included) ]

\* The end of slot_tick without its call to block_db_changed.
finish_slot_tick_without_fanout(slot, nxt, g, log) ==
    LET tick == Call("block_db.slot_tick", Some(slot), {}, {}, << >>)
        update == Call("pool.update_current_slot", Some(slot), {}, {}, << >>)
        timer == Call("timer.set", Some(nxt), {}, {}, << >>)
    IN  \E b \in BlockIds : \E g2 \in graph_changes(g, b, TRUE) :
          /\ calls' = log \o << tick, update, timer >>
          /\ block_db' = g2
          /\ UNCHANGED << wishlist, latest_final_periods >>
          /\ Finish(TRUE, "")

\* The end of slot_tick signalling the tick to the pool before the graph.
finish_slot_tick_notifying_pool_first(slot, nxt, g, log) ==
    LET tick == Call("block_db.slot_tick", Some(slot), {}, {}, << >>)
        update == Call("pool.update_current_slot", Some(slot), {}, {}, << >>)
        timer == Call("timer.set", Some(nxt), {}, {}, << >>)
    IN  \E fail \in FanoutFailures \cup {"block_db", "update_current_slot"} :
          IF fail = "update_current_slot"
          THEN /\ calls' = Append(log, update)
               /\ block_db' = g
               /\ UNCHANGED << wishlist, latest_final_periods >>
               /\ Return("Err(Collaborator)")
          ELSE IF fail = "block_db"
          THEN /\ calls' = log \o << update, tick >>
               /\ block_db' = g
               /\ UNCHANGED << wishlist, latest_final_periods >>
               /\ Return("Err(Collaborator)")
          ELSE \E b \in BlockIds : \E g2 \in graph_changes(g, b, TRUE) :
                 changed(g2, log \o << update, tick >>, fail, << timer >>)

\* slot_tick after block creation: signal the tick to the graph and to the
\* pool, run block_db_changed, reset the timer.
finish_slot_tick(slot, nxt, g, log) ==
    LET tick == Call("block_db.slot_tick", Some(slot), {}, {}, << >>)
        update == Call("pool.update_current_slot", Some(slot), {}, {}, << >>)
        timer == Call("timer.set", Some(nxt), {}, {}, << >>)
    IN  \E fail \in FanoutFailures \cup {"block_db", "update_current_slot"} :
          IF fail = "block_db"
          THEN /\ calls' = Append(log, tick)
               /\ block_db' = g
               /\ UNCHANGED << wishlist, latest_final_periods >>
               /\ Return("Err(Collaborator)")
          ELSE \E b \in BlockIds : \E g2 \in graph_changes(g, b, TRUE) :
                 IF fail = "update_current_slot"
                 THEN /\ calls' = log \o << tick, update >>
                      /\ block_db' = g2
                      /\ UNCHANGED << wishlist, latest_final_periods >>
                      /\ Return("Err(Collaborator)")
                 ELSE changed(g2, log \o << tick, update >>, fail, << timer >>)

\* slot_tick once get_best_operations returned `operations`: create the
\* block, feed it to the graph, and go on with the tick.
create_and_finish(slot, nxt, operations, log) ==
    LET hash == create_block(slot)
        create == Call("block_db.create_block", Some(slot), {}, {}, operations)
        incoming == Call("block_db.incoming_block", Some(slot), {hash},
                         Range(operations), << >>)
    IN  \/ /\ calls' = Append(log, create)
           /\ UNCHANGED << block_db, wishlist, latest_final_periods >>
           /\ Return("Err(Collaborator)")
        \/ /\ calls' = log \o << create, incoming >>
           /\ UNCHANGED << block_db, wishlist, latest_final_periods >>
           /\ Return("Err(Collaborator)")
        \/ \E g \in graph_changes(block_db, hash, TRUE) :
             finish_slot_tick(slot, nxt, g, log \o << create, incoming >>)

\* slot_tick leaving next_slot where it is.
advance_next_slot_not_at_all(slot) == slot

\* slot_tick: self.next_slot = self.next_slot.get_next_slot(thread_count)?
advance_next_slot(slot) == get_next_slot(slot)

\* The creation test without the draw.
should_create_block_whoever_is_drawn(slot, nxt) ==
    /\ ~ cfg.disable_block_creation
    /\ nxt.period > 0

\* slot_tick: "create a block if enabled and possible", with next_slot
\* already advanced to nxt.
should_create_block(slot, nxt) ==
    /\ ~ cfg.disable_block_creation
    /\ nxt.period > 0
    /\ draw(slot) = cfg.current_node_index

\* select!, timer branch: slot_tick up to its first await.
slot_tick ==
    /\ pc = "select"
    /\ event' = Event("tick", "", << >>, Some(next_slot), None, FALSE)
    /\ reply' = << >>
    /\ cur_slot' = Some(next_slot)
    /\ previous_slot' = Some(next_slot)
    /\ IF ~ get_next_slot_ok(next_slot)
       THEN /\ calls' = << >>
            /\ Return("Err(SlotOverflowError)")
            /\ UNCHANGED << next_slot, wishlist, latest_final_periods, block_db,
                            ops, exclude, ledger >>
       ELSE /\ next_slot' = advance_next_slot(next_slot)
            /\ IF should_create_block(next_slot, next_slot')
               THEN /\ ops' = << >>
                    /\ exclude' = << >>
                    /\ ledger' = get_ledger_at_parents({})
                    /\ IF 0 < max_operations_per_block
                       THEN /\ calls' = << get_operation_batch(next_slot, << >>, << >>) >>
                            /\ pc' = "get_best_operations"
                            /\ result' = ""
                            /\ UNCHANGED << wishlist, latest_final_periods,
                                            block_db >>
                       ELSE create_and_finish(next_slot, next_slot', << >>, << >>)
               ELSE /\ finish_slot_tick(next_slot, next_slot', block_db, << >>)
                    /\ UNCHANGED << ops, exclude, ledger >>
    /\ UNCHANGED << cfg, opt_storage_command_sender, controller_command_rx >>

\* get_best_operations from the pool's answer to the pending request to the
\* next request, or through the rest of slot_tick when the loop ends.
get_best_operations ==
    /\ pc = "get_best_operations"
    /\ LET slot == cur_slot[1]
           asked_nb == max_operations_per_block - Len(ops)
           request == calls[Len(calls)]
       IN  \/ /\ Return("Err(Collaborator)")
              /\ UNCHANGED << calls, ops, exclude, ledger, wishlist,
                              latest_final_periods, block_db >>
           \/ \E candidates \in pool_batches(request.ids, request.n) :
                LET involved_addresses == { op_address(candidates[i]) :
                                            i \in 1 .. Len(candidates) }
                    merged == update_ledger(ledger, involved_addresses)
                    r == try_candidates(candidates, 1, merged, ops, exclude)
                    answered == Append(calls, Call("pool.candidates", Some(slot),
                                                   {}, {}, candidates))
                IN  /\ ops' = r.ops
                    /\ exclude' = r.exclude
                    /\ ledger' = r.ledger
                    /\ IF Len(candidates) < asked_nb
                          \/ ~ (Len(r.ops) < max_operations_per_block)
                       THEN create_and_finish(slot, next_slot, r.ops, answered)
                       ELSE /\ calls' = Append(answered,
                                   get_operation_batch(slot, r.ops, r.exclude))
                            /\ pc' = "get_best_operations"
                            /\ result' = ""
                            /\ UNCHANGED << wishlist, latest_final_periods,
                                            block_db >>
    /\ UNCHANGED << cfg, opt_storage_command_sender, previous_slot, next_slot,
                    controller_command_rx, event, reply, cur_slot >>

\* ------------------------------------------------------------------ specification

Next ==
    \/ run_loop_start
    \/ loop
    \/ slot_tick
    \/ get_best_operations
    \/ process_consensus_command
    \/ close_command_channel
    \/ process_protocol_event
    \/ protocol_event_error
    \/ manager_closed

Spec == Init /\ [][Next]_vars

\* A quiet environment, for the progress properties: block creation enabled
\* and storage configured; the graph wants no block, sees no attack and
\* finalizes nothing; the pool offers two operations; requesters wait for
\* their answer and ask for draws of one range; GetBlocks asks for at most
\* one block, which storage does not hold.
QuietEnvironment ==
    /\ ~ cfg.disable_block_creation
    /\ opt_storage_command_sender
    /\ block_db.wishlist = {}
    /\ block_db.attack_attempts = {}
    /\ block_db.discarded_final = {}
    /\ \A t \in 1 .. thread_count : block_db.final[t] = 0
    /\ Range(ops) \cup Range(exclude) \subseteq {1, 3}
    /\ event.kind = "command" =>
          /\ event.alive
          /\ event.from \in {None, Some(Slot(0, 0))}
          /\ event.to \in {None, Some(Slot(0, 1))}
    /\ event.kind = "protocol" => Len(event.ids) <= 1
    /\ \A i \in 1 .. Len(calls) :
          calls[i].op = "storage.get_block" => calls[i].ids2 = {}

\* A worker constructed before genesis on an empty graph.
LiveInit ==
    /\ Init
    /\ QuietEnvironment
    /\ previous_slot = None
    /\ block_db.active = {}

\* The steps of Next in the quiet environment.
LiveNext ==
    \/ run_loop_start /\ QuietEnvironment'
    \/ loop /\ QuietEnvironment'
    \/ slot_tick /\ QuietEnvironment'
    \/ get_best_operations /\ QuietEnvironment'
    \/ process_consensus_command /\ QuietEnvironment'
    \/ close_command_channel /\ QuietEnvironment'
    \/ process_protocol_event /\ QuietEnvironment'
    \/ protocol_event_error /\ QuietEnvironment'
    \/ manager_closed /\ QuietEnvironment'

\* The worker makes progress on its own: the head of run_loop runs, a
\* handler that ended is followed by the next iteration, and the pool
\* answers (or fails) every batch request.  Which ready branch select! takes
\* is left open here; the properties assume fairness branch by branch.
LiveSpec ==
    /\ LiveInit
    /\ [][LiveNext]_vars
    /\ WF_vars(run_loop_start)
    /\ WF_vars(loop)
    /\ WF_vars(get_best_operations)

\* ------------------------------------------------------------------ properties

HasCall(op) == \E i \in 1 .. Len(calls) : calls[i].op = op

\* The three conditions of block creation, read from the worker's state
\* while the tick of cur_slot is handled (next_slot already advanced).
creation_conditions ==
    /\ ~ cfg.disable_block_creation
    /\ next_slot.period > 0
    /\ draw(cur_slot[1]) = cfg.current_node_index

\* C1: on a slot tick, block creation (get_best_operations, create_block,
\* incoming_block of the new block) runs if and only if block creation is
\* enabled, next_slot.period > 0 after the advance step, and the draw of
\* cur_slot is the local node index; when one of the three fails, neither
\* create_block nor incoming_block is called on that tick.
C1_CreationIffConditions ==
    event.kind = "tick" =>
        IF result = "Err(SlotOverflowError)"
        THEN calls = << >>
        ELSE /\ HasCall("pool.get_operation_batch") <=> creation_conditions
             /\ HasCall("block_db.create_block") => creation_conditions
             /\ HasCall("block_db.incoming_block") => creation_conditions
             /\ (creation_conditions /\ pc = "handled") =>
                    /\ HasCall("block_db.create_block")
                    /\ HasCall("block_db.incoming_block")

\* A tick on which the local node created a block and fed it to the graph.
C1_BlockCreated ==
    /\ event.kind = "tick"
    /\ pc = "handled"
    /\ creation_conditions
    /\ HasCall("block_db.create_block")
    /\ HasCall("block_db.incoming_block")

\* C2: block creation skips the genesis period: on a tick whose cur_slot has
\* period 0, create_block and block_db.incoming_block are not called, even
\* when creation is enabled and the local node is drawn for cur_slot.
C2_NoCreationInGenesisPeriod ==
    (event.kind = "tick" /\ cur_slot[1].period = 0) =>
        /\ ~ HasCall("block_db.create_block")
        /\ ~ HasCall("block_db.incoming_block")

\* C3: in every reachable worker state, a tick that fails with slot overflow
\* included: previous_slot = Some(p) implies p < next_slot and
\* next_slot = next(p); previous_slot = None implies next_slot = (0,0).
C3_SlotInvariant ==
    IF previous_slot = None
    THEN next_slot = Slot(0, 0)
    ELSE /\ slot_lt(previous_slot[1], next_slot)
         /\ get_next_slot_ok(previous_slot[1])
         /\ next_slot = get_next_slot(previous_slot[1])

\* A step in which the timer branch of select! is taken.
tick_step == pc = "select" /\ event'.kind = "tick"

\* C4: slot ticks are processed strictly in slot order: every tick handles
\* the slot next_slot held, which is next() of the slot the tick before
\* handled and greater than it (the first tick handles the next_slot of
\* construction, as no other step moves next_slot); that slot is the one
\* passed to block_db.slot_tick and pool.update_current_slot; no slot is
\* skipped or repeated whatever is interleaved.
C4_TicksInSlotOrder ==
    [][ /\ tick_step =>
              /\ cur_slot' = Some(next_slot)
              /\ cur_slot # None =>
                    /\ get_next_slot_ok(cur_slot[1])
                    /\ cur_slot'[1] = get_next_slot(cur_slot[1])
                    /\ slot_lt(cur_slot[1], cur_slot'[1])
        /\ ~ tick_step => UNCHANGED << cur_slot, next_slot >>
        /\ event'.kind = "tick" =>
              \A i \in 1 .. Len(calls') :
                 calls'[i].op \in {"block_db.slot_tick", "pool.update_current_slot"}
                     => calls'[i].slot = cur_slot'
        /\ (event'.kind = "tick" /\ pc' = "handled") =>
              /\ Len(CallsOf(calls', "block_db.slot_tick")) = 1
              /\ Len(CallsOf(calls', "pool.update_current_slot")) = 1
      ]_vars

\* The third tick since genesis was handled: (0,0), (0,1), then (1,0).
C4_ThirdTickHandled ==
    /\ event.kind = "tick"
    /\ pc = "handled"
    /\ cur_slot = Some(Slot(MaxPeriod, 0))
    /\ HasCall("block_db.slot_tick")
    /\ HasCall("pool.update_current_slot")

draws_query == event.kind = "command" /\ event.name = "GetSelectionDraws"

\* C5: GetSelectionDraws{start,end} replies with one (slot, public_key)
\* entry for every slot in [start,end) and no other, in strictly increasing
\* slot order; their number is the count of slots between start and end
\* (zero when start >= end); an entry of period 0 carries the genesis public
\* key, every other one cfg.nodes[draw(slot)].0.
C5_SelectionDraws ==
    draws_query =>
        LET start == event.from[1]
            end == event.to[1]
            wanted == { s \in Slots : slot_ge(s, start) /\ slot_lt(s, end) }
        IN  /\ (event.alive /\ end \in Slots) =>
                   reply # << >> /\ reply[1].tag = "Ok"
            /\ (reply # << >> /\ reply[1].tag = "Ok") =>
                   LET res == reply[1].draws
                   IN  /\ { res[i].slot : i \in 1 .. Len(res) } = wanted
                       /\ \A i \in 1 .. (Len(res) - 1) :
                             slot_lt(res[i].slot, res[i + 1].slot)
                       /\ end \in Slots =>
                             Len(res) = IF slot_ge(start, end) THEN 0
                                        ELSE slot_index(end) - slot_index(start)
                       /\ \A i \in 1 .. Len(res) :
                             res[i].key = IF res[i].slot.period = 0
                                          THEN genesis_public_key
                                          ELSE node_public_key(draw(res[i].slot))

\* A reply listing the two genesis slots and the first slot of period 1.
C5_DrawsAcrossGenesis ==
    /\ draws_query
    /\ event.from = Some(Slot(0, 0))
    /\ event.to = Some(Slot(1, 1))
    /\ reply # << >>
    /\ Len(reply[1].draws) = 3
    /\ reply[1].draws[2].key = genesis_public_key
    /\ reply[1].draws[3].key = node_public_key(draw(Slot(1, 0)))

\* The last representable slot.
LastSlot == Slot(MaxPeriod, thread_count - 1)

\* Iterating from start up to end runs past the last representable slot.
draws_overflow(start, end) == slot_lt(start, end) /\ slot_lt(LastSlot, end)

\* C6: when iterating the slots of a GetSelectionDraws query overflows, the
\* requester receives a SlotOverflow error and no partial list, the worker's
\* state is unchanged, and the worker goes on to the next iteration of its
\* loop.
C6_OverflowConfinedToQuery ==
    [][ ( /\ pc = "select"
          /\ event'.kind = "command"
          /\ event'.name = "GetSelectionDraws"
          /\ event'.alive
          /\ draws_overflow(event'.from[1], event'.to[1]) )
        => /\ reply' = << Reply("Err(SlotOverflowError)", {}, << >>) >>
           /\ UNCHANGED worker_state
           /\ pc' = "handled"
           /\ result' = "" ]_vars

\* A requester was answered SlotOverflow and the worker is back in its loop.
C6_OverflowAnswered ==
    /\ draws_query
    /\ pc = "handled"
    /\ reply = << Reply("Err(SlotOverflowError)", {}, << >>) >>

get_blocks_event == event.kind = "protocol" /\ event.name = "GetBlocks"

\* The storage.get_block calls of the current handler for id, in order.
reads_of(id) ==
    SelectSeq(calls, LAMBDA c : c.op = "storage.get_block" /\ c.ids = {id})

\* How many times id is listed.
occurrences(list, id) == Cardinality({ i \in 1 .. Len(list) : list[i] = id })

\* What a completed GetBlocks handler did, with reads(id) the number of
\* storage reads expected for a listed id that is not active: one
\* send_get_blocks_results whose map has exactly the listed ids; an active
\* id is answered Some from the graph and not read from storage; another id
\* is answered by storage when there is one, and None otherwise; nothing
\* else is called (no graph-mutating call, no fan-out).
get_blocks_outcome(reads(_, _)) ==
    LET list == event.ids
        sends == CallsOf(calls, "protocol.send_get_blocks_results")
    IN  /\ Len(sends) = 1
        /\ calls[Len(calls)].op = "protocol.send_get_blocks_results"
        /\ sends[1].ids \cup sends[1].ids2 = Range(list)
        /\ sends[1].ids \cap sends[1].ids2 = {}
        /\ \A id \in Range(list) :
              LET rd == reads_of(id)
              IN  IF id \in block_db.active
                  THEN id \in sends[1].ids /\ Len(rd) = 0
                  ELSE IF opt_storage_command_sender
                  THEN /\ Len(rd) = reads(list, id)
                       /\ id \in sends[1].ids <=> rd[Len(rd)].ids2 = {id}
                  ELSE id \in sends[1].ids2 /\ Len(rd) = 0
        /\ \A i \in 1 .. Len(calls) :
              /\ calls[i].op \in {"storage.get_block",
                                  "protocol.send_get_blocks_results"}
              /\ calls[i].op = "storage.get_block" =>
                    \E id \in Range(list) : calls[i].ids = {id}

exactly_one_read(list, id) == 1

\* C7 as stated: a GetBlocks(list) event produces exactly one
\* send_get_blocks_results whose map has an entry for every requested id
\* and no other: Some from the DAG for an active id, without storage read;
\* otherwise the result of exactly one storage.get_block for that id when
\* storage is configured; otherwise None; no DAG-mutating call, no fan-out.
C7_OneReadPerRequestedId ==
    (get_blocks_event /\ pc = "handled") => get_blocks_outcome(exactly_one_read)

\* C7 amended: as above, except that a non-active id is read from storage
\* once per occurrence in the list (so exactly once when listed once), the
\* last read deciding its entry.
C7_OneReadPerOccurrence ==
    (get_blocks_event /\ pc = "handled") => get_blocks_outcome(occurrences)

\* The list [1, 2] with 1 active and 2 found in storage by a single read.
C7_ActiveAndStoredBlocks ==
    /\ get_blocks_event
    /\ pc = "handled"
    /\ event.ids = << 1, 2 >>
    /\ 1 \in block_db.active
    /\ 2 \notin block_db.active
    /\ Len(CallsOf(calls, "storage.get_block")) = 1
    /\ calls[Len(calls)].ids = {1, 2}

\* C8: a failure to send a command reply because the requester dropped its
\* reply channel does not surface to the caller of run_loop: the worker loop
\* continues.
C8_DroppedRequesterRecovered ==
    ( /\ event.kind = "command"
      /\ ~ event.alive
      /\ result # "Err(Collaborator)" )
    => (pc # "returned" /\ result = "")

\* C9: processing a command leaves previous_slot, next_slot, wishlist,
\* latest_final_periods and the DAG unchanged and calls neither protocol,
\* pool nor storage, whether the reply send succeeds or fails; at most one
\* value goes through the reply channel, none when the requester is gone.
C9_CommandsChangeNothing ==
    [][ (pc = "select" /\ event'.kind = "command")
        => /\ UNCHANGED worker_state
           /\ calls' = << >>
           /\ Len(reply') <= 1
           /\ ~ event'.alive => reply' = << >> ]_vars

\* A command whose requester was gone has been processed.
C9_CommandWithRequesterGone ==
    /\ event.kind = "command"
    /\ ~ event.alive
    /\ reply = << >>
    /\ pc = "returned"

Errors ==
    { "Err(Collaborator)", "Err(SlotOverflowError)", "Err(SendChannelError)",
      "Err(CommunicationError)" }

\* C10: the worker loop ends only gracefully, when the management channel
\* yields None and run_loop returns Ok with the protocol event receiver, or
\* with the error of a handler or of the protocol event stream (a
\* Communication error exactly when the wait for a protocol event failed);
\* closing the command channel does not end the loop; once run_loop
\* returned, no tick, command or protocol event is processed.
C10_LoopEnds ==
    [][ /\ pc # "returned"
        /\ pc' = "returned" =>
              \/ event'.kind = "manager" /\ result' = "Ok(protocol_event_receiver)"
              \/ /\ event'.kind \in {"start", "tick", "command", "protocol"}
                 /\ result' \in Errors
                 /\ result' = "Err(CommunicationError)"
                       <=> (event'.kind = "protocol" /\ event'.name = "Err")
        /\ pc' # "returned" => result' = ""
        /\ controller_command_rx' # controller_command_rx =>
              pc' = "select" /\ result' = ""
      ]_vars

\* run_loop returned gracefully after the command channel had been closed.
C10_GracefulExitAfterCommandsClosed ==
    /\ pc = "returned"
    /\ result = "Ok(protocol_event_receiver)"
    /\ event.kind = "manager"
    /\ controller_command_rx = "closed"

HasCallIn(log, op) == \E i \in 1 .. Len(log) : log[i].op = op

\* C11: in every fan-out a wishlist delta is sent to protocol exactly when
\* the DAG's new wishlist differs from the cached one, with
\* add = new_wishlist \ wishlist and remove = wishlist \ new_wishlist; after
\* a completed fan-out the cached wishlist is the DAG's; the cached wishlist
\* starts empty and every step changes it by exactly the delta delivered in
\* that step, so it always equals the deltas applied in order to the empty
\* set.
C11_WishlistDeltas ==
    /\ wishlist = {}
    /\ [][ LET deltas == CallsOf(calls', "protocol.send_wishlist_delta")
               new_wishlist == block_db'.wishlist
               delivered == /\ Len(deltas) = 1
                            /\ \/ pc' = "handled"
                               \/ calls'[Len(calls')].op # "protocol.send_wishlist_delta"
           IN  /\ IF HasCallIn(calls', "block_db.prune")
                  THEN /\ Len(deltas) <= 1
                       /\ Len(deltas) = 1 <=> new_wishlist # wishlist
                       /\ Len(deltas) = 1 =>
                             /\ deltas[1].ids = new_wishlist \ wishlist
                             /\ deltas[1].ids2 = wishlist \ new_wishlist
                       /\ pc' = "handled" => wishlist' = new_wishlist
                  ELSE deltas = << >>
               /\ wishlist' = IF delivered
                              THEN (wishlist \cup deltas[1].ids) \ deltas[1].ids2
                              ELSE wishlist
         ]_vars

\* A fan-out sent a delta that adds one block and removes another.
C11_DeltaAddsAndRemoves ==
    /\ pc = "handled"
    /\ \E i \in 1 .. Len(calls) :
          /\ calls[i].op = "protocol.send_wishlist_delta"
          /\ calls[i].ids # {}
          /\ calls[i].ids2 # {}
          /\ wishlist = calls[i].ids
    /\ wishlist = block_db.wishlist

\* C12: a fan-out pushes update_latest_final_periods to the pool if and only
\* if the final periods read from the DAG differ from the vector pushed
\* before (the first push being the unconditional one at the start of
\* run_loop); the cached latest_final_periods changes only by a push, to the
\* vector pushed, so no two consecutive pushes carry equal vectors.
C12_FinalPeriodsPushedIffChanged ==
    [][ LET pushes == CallsOf(calls', "pool.update_latest_final_periods")
            new_periods == final_periods(block_db')
            last_step_reached ==
                \/ pc' = "handled"
                \/ calls'[Len(calls')].op = "pool.update_latest_final_periods"
        IN  /\ Len(pushes) <= 1
            /\ IF event'.kind = "start"
               THEN /\ pc' = "handled" => Len(pushes) = 1
                    /\ pushes # << >> => pushes[1].vec = latest_final_periods
               ELSE IF HasCallIn(calls', "block_db.prune") /\ last_step_reached
               THEN /\ Len(pushes) = 1 <=> new_periods # latest_final_periods
                    /\ pushes # << >> => pushes[1].vec = new_periods
               ELSE pushes = << >>
            /\ latest_final_periods' = IF pushes # << >> THEN pushes[1].vec
                                       ELSE latest_final_periods
      ]_vars

\* A fan-out pushed final periods that had advanced.
C12_AdvancedPeriodsPushed ==
    /\ pc = "handled"
    /\ event.kind = "protocol"
    /\ \E i \in 1 .. Len(calls) :
          /\ calls[i].op = "pool.update_latest_final_periods"
          /\ calls[i].vec = latest_final_periods
          /\ \E t \in 1 .. thread_count : calls[i].vec[t] > 0

\* The state-changing calls into BlockGraph.
mutating_ops ==
    { "block_db.incoming_block", "block_db.incoming_header", "block_db.slot_tick" }

\* Positions in the current handler's calls of the state-changing calls and
\* of the fan-outs (block_db_changed begins with block_db.prune).
mutations == { i \in 1 .. Len(calls) : calls[i].op \in mutating_ops }
fanouts == { i \in 1 .. Len(calls) : calls[i].op = "block_db.prune" }

\* The fan-outs that follow the call at i before any further mutation.
fanouts_following(i) ==
    { j \in fanouts : j > i /\ \A k \in mutations : ~ (i < k /\ k < j) }

\* C13 as stated: in every handler, a slot tick that creates a block
\* included, every state-changing call into BlockGraph is followed by
\* exactly one fan-out before any further state-changing call; handlers
\* that make no state-changing call perform no fan-out.
C13_OneFanoutPerMutation ==
    pc = "handled" =>
        /\ \A i \in mutations : Cardinality(fanouts_following(i)) = 1
        /\ mutations = {} => fanouts = {}

\* C13 amended: a completed handler that makes state-changing calls runs
\* exactly one fan-out, after the last of them: ReceivedBlock and
\* ReceivedBlockHeader make one such call, a tick makes block_db.slot_tick,
\* preceded by the incoming_block of the created block when it creates one
\* (the two share the single fan-out of the tick); commands and GetBlocks
\* make no such call and no fan-out.
C13_OneFanoutPerMutatingHandler ==
    pc = "handled" =>
        /\ mutations = {} => fanouts = {}
        /\ mutations # {} =>
              /\ Cardinality(fanouts) = 1
              /\ \A i \in mutations : \A j \in fanouts : i < j
        /\ event.kind \in {"command", "manager", "start"} => mutations = {}
        /\ event.kind = "protocol" =>
              Cardinality(mutations) = IF event.name = "GetBlocks" THEN 0 ELSE 1
        /\ event.kind = "tick" =>
              IF HasCall("block_db.create_block")
              THEN \E i \in mutations :
                      /\ mutations = {i, i + 1}
                      /\ calls[i].op = "block_db.incoming_block"
                      /\ calls[i + 1].op = "block_db.slot_tick"
              ELSE \E i \in mutations :
                      mutations = {i} /\ calls[i].op = "block_db.slot_tick"

\* A tick created a block and ran its single fan-out after slot_tick.
C13_CreatingTickFanout ==
    /\ pc = "handled"
    /\ event.kind = "tick"
    /\ Cardinality(mutations) = 2
    /\ Cardinality(fanouts) = 1

\* The candidates the pool supplied in the current block-creation run
\* before position i of the handler's calls.
supplied_before(i) ==
    UNION { Range(calls[j].vec) :
            j \in { k \in 1 .. (i - 1) : calls[k].op = "pool.candidates" } }

\* C14: within one block-creation run every pool batch request excludes
\* exactly the ids included so far together with the ids rejected so far,
\* that is every candidate examined so far, so a rejected id is excluded
\* from every later request of the slot; the first request of every run,
\* also in a slot after one with rejections, excludes nothing.
C14_BatchRequestsExcludeExamined ==
    event.kind = "tick" =>
        /\ \A i \in 1 .. Len(calls) :
              calls[i].op = "pool.get_operation_batch" =>
                 /\ calls[i].ids = supplied_before(i)
                 /\ calls[i].slot = cur_slot
                 /\ i = 1 => calls[i].ids = {}
                 /\ i > 1 => calls[i - 1].op = "pool.candidates"
        /\ pc = "get_best_operations" =>
              /\ calls[Len(calls)].op = "pool.get_operation_batch"
              /\ calls[Len(calls)].ids = Range(ops) \cup Range(exclude)
              /\ Range(ops) \cap Range(exclude) = {}
        /\ HasCall("pool.get_operation_batch") =>
              calls[1].op = "pool.get_operation_batch"

\* After a rejection the next request of the slot excludes the rejected id.
C14_RejectedIdExcluded ==
    /\ pc = "get_best_operations"
    /\ exclude # << >>
    /\ Len(CallsOf(calls, "pool.get_operation_batch")) = 2
    /\ Range(exclude) \subseteq calls[Len(calls)].ids

RECURSIVE candidates_before(_)
\* The candidates the pool supplied before position i of the handler's
\* calls, in the order supplied.
candidates_before(i) ==
    IF i <= 1 THEN << >>
    ELSE IF calls[i - 1].op = "pool.candidates"
         THEN candidates_before(i - 1) \o calls[i - 1].vec
         ELSE candidates_before(i - 1)

Addresses == { op_address(op) : op \in OpIds }

RECURSIVE accepted_in_order(_, _)
\* The candidates of cands, in order, that the balances at the parents can
\* pay for once spent[a] has been taken from address a.
accepted_in_order(cands, spent) ==
    IF cands = << >> THEN << >>
    ELSE LET op == Head(cands)
             a == op_address(op)
         IN  IF spent[a] + op_cost(op) <= balance_at_parents
             THEN << op >> \o accepted_in_order(Tail(cands),
                                  [spent EXCEPT ![a] = spent[a] + op_cost(op)])
             ELSE accepted_in_order(Tail(cands), spent)

nothing_spent == [ a \in Addresses |-> 0 ]

\* C15: the operations handed to create_block are exactly the pool
\* candidates whose changes applied to the worker's ledger snapshot, in the
\* order the pool supplied them, batch by batch; a candidate whose changes
\* do not apply is left out and joins the rejected ids; a rejection aborts
\* neither block creation nor the tick: every answer of the pool is followed
\* by the next request or by create_block.
C15_BlockHoldsApplicableCandidates ==
    (event.kind = "tick" /\ HasCall("pool.get_operation_batch")) =>
        LET supplied == candidates_before(Len(calls) + 1)
        IN  /\ ops = accepted_in_order(supplied, nothing_spent)
            /\ Range(exclude) = Range(supplied) \ Range(ops)
            /\ \A i \in 1 .. Len(calls) :
                  /\ calls[i].op = "block_db.create_block" =>
                        /\ calls[i].vec = ops
                        /\ calls[i].vec = accepted_in_order(candidates_before(i),
                                                            nothing_spent)
                  /\ calls[i].op = "pool.candidates" =>
                        /\ i < Len(calls)
                        /\ calls[i + 1].op \in {"pool.get_operation_batch",
                                                "block_db.create_block"}

\* A block of two operations was created after a candidate was rejected.
C15_BlockCreatedDespiteRejection ==
    /\ event.kind = "tick"
    /\ pc = "handled"
    /\ exclude # << >>
    /\ \E i \in 1 .. Len(calls) :
          calls[i].op = "block_db.create_block" /\ Len(calls[i].vec) = 2

\* Place of a call in block_db_changed; calls a handler makes after its
\* fan-out come last.
fanout_step(op) ==
    CASE op = "block_db.prune" -> 1
      [] op = "storage.add_block_batch" -> 2
      [] op = "protocol.integrated_block" -> 3
      [] op = "protocol.notify_block_attack" -> 4
      [] op = "protocol.send_wishlist_delta" -> 5
      [] op = "pool.update_latest_final_periods" -> 6
      [] OTHER -> 7

\* C16: a fan-out prunes the graph and hands the discarded final blocks to
\* storage when storage is configured, then announces the blocks to
\* propagate, then notifies the attack attempts, then sends the wishlist
\* delta, then pushes the final periods: from the prune on, no call of a later
\* step precedes a call of an earlier one; the batch, the delta and the push
\* are made at most once, each block is announced or notified once, and none
\* of these messages is sent by a handler before its fan-out began.
C16_FanoutStepsInOrder ==
    /\ \A j \in fanouts :
          /\ \A a, b \in j .. Len(calls) :
                a < b => fanout_step(calls[a].op) <= fanout_step(calls[b].op)
          /\ \A a, b \in j .. Len(calls) :
                (a < b /\ calls[a].op = calls[b].op) =>
                    /\ fanout_step(calls[a].op) \in {3, 4, 7}
                    /\ calls[a].ids # calls[b].ids
          /\ j < Len(calls) =>
                (opt_storage_command_sender
                    <=> calls[j + 1].op = "storage.add_block_batch")
          /\ j = Len(calls) => ~ opt_storage_command_sender
          /\ \A a \in j .. Len(calls) :
                calls[a].op = "storage.add_block_batch" =>
                    calls[a].ids \cap block_db.active = {}
          /\ block_db.discarded_final = {}
          /\ j < Len(calls) /\ fanout_step(calls[Len(calls)].op) >= 5 =>
                block_db.to_propagate = {} /\ block_db.attack_attempts = {}
    /\ \A i \in 1 .. Len(calls) :
          fanout_step(calls[i].op) \in 2 .. 5 => \E j \in fanouts : j < i
    /\ \A i \in 1 .. Len(calls) :
          (calls[i].op = "pool.update_latest_final_periods"
              /\ event.kind # "start") => \E j \in fanouts : j < i

\* A fan-out that made every kind of call: a batch to storage, an
\* announcement, an attack notification, a wishlist delta and a push of the
\* final periods.
C16_FanoutWithEveryStep ==
    /\ pc = "handled"
    /\ \A n \in 1 .. 6 :
          \E i \in 1 .. Len(calls) : fanout_step(calls[i].op) = n
    /\ \E i \in 1 .. Len(calls) :
          calls[i].op = "storage.add_block_batch" /\ calls[i].ids # {}

\* Positions of the calls to op in the current handler's calls.
positions(op) == { i \in 1 .. Len(calls) : calls[i].op = op }

\* C17: a slot tick that succeeds has advanced previous_slot and next_slot;
\* if the node is elected (the conditions of C1) it made, after the pool
\* round-trips, exactly one create_block(cur_slot, ops) immediately followed
\* by exactly one incoming_block carrying the hash create_block returned,
\* the ids of ops and Some(cur_slot), otherwise neither; then
\* block_db.slot_tick(Some(cur_slot)); then pool.update_current_slot(cur_slot);
\* then one fan-out; and last it set the timer for the new next_slot.
C17_SuccessfulTickOrder ==
    (event.kind = "tick" /\ pc = "handled") =>
        /\ previous_slot = cur_slot
        /\ next_slot = get_next_slot(cur_slot[1])
        /\ \E t \in 1 .. Len(calls) :
              /\ positions("block_db.slot_tick") = {t}
              /\ calls[t].slot = cur_slot
              /\ IF creation_conditions
                 THEN /\ t >= 3
                      /\ positions("block_db.create_block") = {t - 2}
                      /\ calls[t - 2].slot = cur_slot
                      /\ calls[t - 2].vec = ops
                      /\ positions("block_db.incoming_block") = {t - 1}
                      /\ calls[t - 1].ids = {create_block(cur_slot[1])}
                      /\ calls[t - 1].ids2 = Range(ops)
                      /\ calls[t - 1].slot = cur_slot
                      /\ \A i \in 1 .. (t - 3) :
                            calls[i].op \in {"pool.get_operation_batch",
                                             "pool.candidates"}
                 ELSE /\ t = 1
                      /\ positions("block_db.create_block") = {}
                      /\ positions("block_db.incoming_block") = {}
              /\ positions("pool.update_current_slot") = {t + 1}
              /\ calls[t + 1].slot = cur_slot
              /\ positions("block_db.prune") = {t + 2}
              /\ positions("timer.set") = {Len(calls)}
              /\ calls[Len(calls)].slot = Some(next_slot)
              /\ \A i \in (t + 2) .. (Len(calls) - 1) :
                    fanout_step(calls[i].op) \in 1 .. 6

\* A tick created a block of one operation and went through every later
\* step, its fan-out announcing the block.
C17_CreatingTickCompleted ==
    /\ event.kind = "tick"
    /\ pc = "handled"
    /\ Len(ops) = 1
    /\ HasCall("block_db.incoming_block")
    /\ HasCall("protocol.integrated_block")
    /\ calls[Len(calls)].op = "timer.set"

\* C18: handlers are atomic with respect to the four input streams.  An
\* event is taken only by select!, when no handler is running and nothing of
\* the handler before is pending; while block creation awaits the pool no
\* tick, command, protocol event or shutdown signal is taken: every step
\* keeps the tick as the event being handled, leaves the slots and the
\* command channel alone and only extends the tick's own calls; the graph,
\* the wishlist and the final periods change only in the step of a handler
\* that makes a state-changing call, and every state-changing call and
\* outbound message in a handler's calls is that handler's own, about the
\* block of its protocol event or the slot of its tick.
C18_HandlersAtomic ==
    [][ /\ event' # event =>
              \/ pc = "handled" /\ event' = NoEvent
              \/ pc \in {"select", "run_loop"} /\ event = NoEvent /\ calls = << >>
        /\ controller_command_rx' # controller_command_rx => pc = "select"
        /\ pc = "get_best_operations" =>
              /\ event.kind = "tick"
              /\ event' = event
              /\ UNCHANGED << previous_slot, next_slot, cur_slot, reply,
                              controller_command_rx >>
              /\ Len(calls') >= Len(calls)
              /\ SubSeq(calls', 1, Len(calls)) = calls
        /\ (pc # "get_best_operations" /\ calls' # calls) =>
              \/ calls' = << >>
              \/ pc \in {"select", "run_loop"} /\ calls = << >>
        /\ << block_db, wishlist, latest_final_periods >>'
               # << block_db, wishlist, latest_final_periods >> =>
              HasCallIn(calls', "block_db.incoming_block")
                 \/ HasCallIn(calls', "block_db.incoming_header")
                 \/ HasCallIn(calls', "block_db.slot_tick")
        /\ \A i \in 1 .. Len(calls') :
              /\ calls'[i].op \in mutating_ops \cup {"block_db.create_block"} =>
                    \/ /\ event'.kind = "tick"
                       /\ calls'[i].slot = cur_slot'
                       /\ calls'[i].op # "block_db.incoming_header"
                    \/ /\ event'.kind = "protocol"
                       /\ event'.name = "ReceivedBlock"
                       /\ calls'[i].op = "block_db.incoming_block"
                       /\ calls'[i].ids = {event'.ids[1]}
                    \/ /\ event'.kind = "protocol"
                       /\ event'.name = "ReceivedBlockHeader"
                       /\ calls'[i].op = "block_db.incoming_header"
                       /\ calls'[i].ids = {event'.ids[1]}
              /\ calls'[i].op \in {"pool.get_operation_batch", "pool.candidates",
                                   "pool.update_current_slot"} =>
                    \/ event'.kind = "tick" /\ calls'[i].slot = cur_slot'
                    \/ event'.kind = "start"
      ]_vars

\* A tick that went through two pool round-trips, fed its block back and
\* announced it in its fan-out.
C18_TickWithTwoRoundTrips ==
    /\ event.kind = "tick"
    /\ pc = "handled"
    /\ Cardinality(positions("pool.candidates")) = 2
    /\ HasCall("block_db.incoming_block")
    /\ HasCall("protocol.integrated_block")

\* The operations examined so far by the current run of get_best_operations.
examined == Len(ops) + Len(exclude)

\* C20: the operation-selection loop terminates.  A round, from the pool's
\* answer to a request for asked_nb >= 1 candidates, leaves the loop (and
\* goes on to create_block) exactly when the included count has reached
\* max_operations_per_block or the batch held fewer candidates than asked;
\* a round that stays in the loop examined a full batch, every candidate of
\* which was included or rejected, so the number of examined operations grew
\* by asked_nb; examined operations are distinct and never exceed the
\* operations the pool holds, so a run makes at most one request more than
\* the pool holds operations.
C20_SelectionLoopTerminates ==
    [][ /\ (pc = "get_best_operations" /\ calls' # calls) =>
              LET request == calls[Len(calls)]
                  answer == calls'[Len(calls) + 1]
              IN  /\ request.op = "pool.get_operation_batch"
                  /\ request.n = max_operations_per_block - Len(ops)
                  /\ request.n >= 1
                  /\ answer.op = "pool.candidates"
                  /\ Len(answer.vec) <= request.n
                  /\ examined' = examined + Len(answer.vec)
                  /\ pc' # "get_best_operations" <=>
                        \/ Len(ops') >= max_operations_per_block
                        \/ Len(answer.vec) < request.n
                  /\ pc' # "get_best_operations" =>
                        HasCallIn(calls', "block_db.create_block")
                  /\ pc' = "get_best_operations" =>
                        /\ examined' > examined
                        /\ calls'[Len(calls')].op = "pool.get_operation_batch"
                        /\ Len(calls') = Len(calls) + 2
        /\ pc' = "get_best_operations" =>
              /\ Len(ops') < max_operations_per_block
              /\ examined' <= NumOps
              /\ Cardinality(Range(ops') \cup Range(exclude')) = examined'
              /\ Len(CallsOf(calls', "pool.get_operation_batch")) <= examined' + 1
        /\ Len(CallsOf(calls', "pool.get_operation_batch")) <= NumOps + 1
      ]_vars

\* The loop ended in create_block after a round whose full batch was
\* rejected whole.
C20_ExitAfterRejectedBatch ==
    /\ event.kind = "tick"
    /\ HasCall("block_db.create_block")
    /\ \E i \in 2 .. Len(calls) :
          /\ calls[i].op = "pool.candidates"
          /\ calls[i].vec # << >>
          /\ Len(calls[i].vec) = calls[i - 1].n
          /\ Range(calls[i].vec) \subseteq Range(exclude)

\* The four input streams of select!.
StreamKinds == {"tick", "command", "protocol", "manager"}

\* C19: each iteration of the loop takes exactly one event from exactly one
\* of the four streams: select! is left only by taking one event, no second
\* event is taken before the loop comes back to select!, and a new iteration
\* starts with no event in hand.  No stream is starved: if select! is fair to
\* a stream's branch (the branch is taken if it is ready again and again),
\* then from every iteration on, unless run_loop returns, a due tick is
\* processed, a pending command is processed while the command channel is
\* open, a pending protocol event is processed, and a pending shutdown makes
\* run_loop return, whatever is chosen on the other streams.
C19_NoStreamStarved ==
    /\ [][ /\ (pc = "select" /\ pc' # "select") =>
                /\ event = NoEvent
                /\ event'.kind \in StreamKinds
           /\ (event' # event /\ event' # NoEvent) =>
                /\ event = NoEvent
                /\ pc \in {"select", "run_loop"}
           /\ pc' = "select" => event' = NoEvent
         ]_vars
    /\ SF_vars(slot_tick) =>
          ((pc = "select") ~> (event.kind = "tick" \/ pc = "returned"))
    /\ SF_vars(process_consensus_command) =>
          ((pc = "select" /\ controller_command_rx = "open")
              ~> \/ event.kind = "command"
                 \/ controller_command_rx = "closed"
                 \/ pc = "returned")
    /\ SF_vars(process_protocol_event) =>
          ((pc = "select") ~> (event.kind = "protocol" \/ pc = "returned"))
    /\ SF_vars(manager_closed) => <>(pc = "returned")

\* A command was processed after two ticks and the integration of a block:
\* the streams take turns.
C19_CommandAfterTick ==
    /\ pc = "handled"
    /\ event.kind = "command"
    /\ cur_slot = Some(Slot(0, 1))
    /\ block_db.active # {}

RECURSIVE spent_from(_, _)
\* What the operations of q spend from address a.
spent_from(q, a) ==
    IF q = << >> THEN 0
    ELSE (IF op_address(Head(q)) = a THEN op_cost(Head(q)) ELSE 0)
             + spent_from(Tail(q), a)

RECURSIVE applies_in_order(_, _)
\* Whether the changes of the operations of q, applied in order to ledger l,
\* all succeed.
applies_in_order(q, l) ==
    \/ q = << >>
    \/ /\ can_apply(l, Head(q))
       /\ applies_in_order(Tail(q), apply_changes(l, Head(q)))

distinct_ids(q) == \A i, j \in 1 .. Len(q) : i # j => q[i] # q[j]

\* C22: with a pool whose batches hold at most the requested number of
\* candidates, all distinct and none excluded by the request, a locally
\* created block never holds more than max_operations_per_block operations
\* nor the same operation twice, and neither does the list being built; each
\* batch request asks for max_operations_per_block minus the number of
\* operations included when it is made, which is at least one.
C22_BlockWithinLimitWithoutDuplicates ==
    (event.kind = "tick" /\ HasCall("pool.get_operation_batch")) =>
        /\ Len(ops) <= max_operations_per_block
        /\ distinct_ids(ops)
        /\ \A i \in 1 .. Len(calls) :
              /\ calls[i].op = "block_db.create_block" =>
                    /\ Len(calls[i].vec) <= max_operations_per_block
                    /\ distinct_ids(calls[i].vec)
              /\ calls[i].op = "pool.get_operation_batch" =>
                    LET included == accepted_in_order(candidates_before(i),
                                                      nothing_spent)
                    IN  /\ calls[i].n = max_operations_per_block - Len(included)
                        /\ calls[i].n >= 1
                        /\ Range(included) \subseteq calls[i].ids
              /\ calls[i].op = "pool.candidates" =>
                    /\ Len(calls[i].vec) <= calls[i - 1].n
                    /\ distinct_ids(calls[i].vec)
                    /\ Range(calls[i].vec) \cap calls[i - 1].ids = {}

\* A block was filled to the limit by a second request asking for the one
\* operation still missing.
C22_BlockFilledBySecondRequest ==
    /\ event.kind = "tick"
    /\ \E i, j \in 1 .. Len(calls) :
          /\ i < j
          /\ calls[i].op = "pool.get_operation_batch"
          /\ calls[i].n = 1
          /\ calls[j].op = "block_db.create_block"
          /\ Len(calls[j].vec) = max_operations_per_block

\* Order of optional slots: None comes before every slot.
opt_slot_le(a, b) ==
    \/ a = None
    \/ b # None /\ ~ slot_lt(b[1], a[1])

\* The calls into BlockGraph that take the current slot.
current_slot_ops ==
    { "block_db.incoming_block", "block_db.incoming_header", "block_db.slot_tick" }

\* C23: the current slot the worker passes to BlockGraph never decreases.
\* Every call that takes it is given the previous_slot the handler leaves
\* behind: for a peer's block or header that is previous_slot as it was (the
\* slot ticked last, or the latest slot at construction, or None before
\* genesis); for a tick it is Some(cur_slot), given to the incoming_block of
\* the created block and to slot_tick.  previous_slot never decreases, and a
\* tick moves it to a slot strictly greater, so a tick's cur_slot is greater
\* than every slot passed before it.
C23_CurrentSlotNeverDecreases ==
    [][ /\ opt_slot_le(previous_slot, previous_slot')
        /\ previous_slot' # previous_slot => tick_step
        /\ tick_step =>
              /\ cur_slot' # None
              /\ previous_slot' = cur_slot'
              /\ previous_slot # None =>
                    slot_lt(previous_slot[1], cur_slot'[1])
        /\ \A i \in 1 .. Len(calls') :
              calls'[i].op \in current_slot_ops =>
                  /\ calls'[i].slot = previous_slot'
                  /\ event'.kind = "tick" => calls'[i].slot = cur_slot'
                  /\ event'.kind = "protocol" => previous_slot' = previous_slot
                  /\ event'.kind \in {"tick", "protocol"}
      ]_vars

\* A peer's header was handed to the graph with the slot of the second tick.
C23_PeerHeaderAfterTicks ==
    /\ pc = "handled"
    /\ event.kind = "protocol"
    /\ \E i \in 1 .. Len(calls) :
          /\ calls[i].op = "block_db.incoming_header"
          /\ calls[i].slot = Some(Slot(0, 1))
    /\ cur_slot = Some(Slot(0, 1))

====
